---- MODULE Spec2Model ----
(***************************************************************************)
(* A model of quartr_streamlit.py: one Streamlit session of the Quartr     *)
(* retrieval page.  Every execution of the script (a page load, a click on *)
(* "Start Processing", a click on "Test Queue Connection", an auto-refresh *)
(* tick, a requested rerun) is one step: it runs the module-level code,    *)
(* then main(), against st.session_state, the form's widget values and the *)
(* Huey result store.  The run of "Test Queue Connection" alone takes      *)
(* several steps: it blocks in task.get, and goes on when that returns.    *)
(***************************************************************************)
EXTENDS Integers, Sequences, FiniteSets, TLC

VARIABLES
    env_ok,         \* the required environment variables are all set (lines 36-41)
    session_state,  \* st.session_state: a dict, modelled as a function on its keys
    result_store,   \* Huey's result store: task id -> snapshot dict; only the entry
                    \* of the task id the session holds is tracked, the script
                    \* reads no other
    n_enqueued,     \* number of process_files_task jobs the queue accepted
    last_job,       \* arguments of the most recent accepted process_files_task call
    isin_input,     \* text area "Enter ISINs (one per line)": a sequence of characters
    start_date,     \* date_input "Start Date": <<year, month, day>>
    end_date,       \* date_input "End Date"
    doc_types,      \* multiselect "Select document types"
    s3_bucket,      \* text_input "S3 Bucket Name"
    autorefresh,    \* the st_autorefresh component is on the page (lines 50-51)
    refresh_count,  \* the component's count of refreshes, kept modulo 2
    form_shown,     \* the form "quartr_form" is on the page (line 170)
    button_shown,   \* the button "Test Queue Connection" is on the page (line 236)
    run_pending,    \* a script run is due at once (first load, st.experimental_rerun)
    rendered,       \* what check_task_status put on the page in the last run
    form_error,     \* the st.error of the form handler in the last run, or ""
    probe,          \* what the queue test put on the page in the last run
    probe_outcome,  \* what ping() and task.get did in the queue test whose result
                    \* is on the page
    probe_wait,     \* seconds the queue test has waited in task.get (line 127),
                    \* -1 when no queue test is waiting
    last_run        \* trace of the last run: its trigger, the store read, exceptions

vars == << env_ok, session_state, result_store, n_enqueued, last_job, isin_input,
           start_date, end_date, doc_types, s3_bucket, autorefresh, refresh_count,
           form_shown, button_shown, run_pending, rendered, form_error, probe, last_run,
           probe_outcome, probe_wait >>

widgets == << isin_input, start_date, end_date, doc_types, s3_bucket >>

-----------------------------------------------------------------------------
(* Bounds of the model *)

MaxText == 5      \* longest text typed into the ISIN text area
MaxTotal == 2     \* largest 'total' of a snapshot
MaxJobs == 2      \* jobs one session dispatches
WaitStep == 5     \* seconds between two looks at the clock of a waiting task.get
MaxWait == 20     \* a wait is followed no further than this many seconds

-----------------------------------------------------------------------------
(* Python values *)

\* None, and the empty dict: both are falsy in "if result:" (line 67)
PyNone == << >>

Truthy(d) == DOMAIN d # {}

\* dict.get(key, default)
Get(d, key, default) == IF key \in DOMAIN d THEN d[key] ELSE default

\* del d[key]
Del(d, key) == [k \in DOMAIN d \ {key} |-> d[k]]

\* d[key] = value
Put(d, key, value) == [k \in DOMAIN d \cup {key} |-> IF k = key THEN value ELSE d[k]]

Whitespace == {" ", "\t", "\n", "\r"}

RECURSIVE LStrip(_)
LStrip(s) == IF s = << >> THEN << >>
             ELSE IF Head(s) \in Whitespace THEN LStrip(Tail(s)) ELSE s

RECURSIVE RStrip(_)
RStrip(s) == IF s = << >> THEN << >>
             ELSE IF s[Len(s)] \in Whitespace THEN RStrip(SubSeq(s, 1, Len(s) - 1)) ELSE s

\* str.strip()
Strip(s) == RStrip(LStrip(s))

\* str.split("\n"): the pieces between newlines, empty pieces kept
RECURSIVE Split(_)
Split(s) ==
    IF \A i \in 1..Len(s) : s[i] # "\n" THEN << s >>
    ELSE LET i == CHOOSE j \in 1..Len(s) :
                      s[j] = "\n" /\ \A k \in 1..(j - 1) : s[k] # "\n"
         IN  << SubSeq(s, 1, i - 1) >> \o Split(SubSeq(s, i + 1, Len(s)))

\* StripNonBlank keeping the lines as typed: [isin for isin in lines if isin.strip()]
RECURSIVE StripNonBlankUnstripped(_)
StripNonBlankUnstripped(lines) ==
    IF lines = << >> THEN << >>
    ELSE IF Strip(Head(lines)) # << >>
         THEN << Head(lines) >> \o StripNonBlankUnstripped(Tail(lines))
         ELSE StripNonBlankUnstripped(Tail(lines))

\* [isin.strip() for isin in lines if isin.strip()]
RECURSIVE StripNonBlank(_)
StripNonBlank(lines) ==
    IF lines = << >> THEN << >>
    ELSE IF Strip(Head(lines)) # << >>
         THEN << Strip(Head(lines)) >> \o StripNonBlank(Tail(lines))
         ELSE StripNonBlank(Tail(lines))

\* DateGT with >= for >
DateGE(a, b) ==
    \/ a[1] > b[1]
    \/ a[1] = b[1] /\ a[2] > b[2]
    \/ a[1] = b[1] /\ a[2] = b[2] /\ a[3] >= b[3]

\* date > date: datetime.date compares chronologically
DateGT(a, b) ==
    \/ a[1] > b[1]
    \/ a[1] = b[1] /\ a[2] > b[2]
    \/ a[1] = b[1] /\ a[2] = b[2] /\ a[3] > b[3]

DigitChar == << "0", "1", "2", "3", "4", "5", "6", "7", "8", "9" >>

\* the decimal digits of n, zero-padded to width w (%Y is 4 wide, %m and %d are 2)
RECURSIVE Digits(_, _)
Digits(n, w) ==
    IF w = 0 THEN << >> ELSE Digits(n \div 10, w - 1) \o << DigitChar[(n % 10) + 1] >>

\* date.strftime("%Y-%m-%d")
Strftime(d) == Digits(d[1], 4) \o << "-" >> \o Digits(d[2], 2) \o << "-" >> \o Digits(d[3], 2)

-----------------------------------------------------------------------------
(* The result store and the snapshots the worker writes into it *)

\* succeeded + failed <= n
Tallies(n) == { st \in (0..n) \X (0..n) : st[1] + st[2] <= n }

\* the dicts the worker stores under a task id while the job runs
InProgressSnapshots ==
    UNION { { [status |-> "In Progress", total |-> t, processed |-> p,
               success |-> st[1], failed |-> st[2]] : st \in Tallies(p) } :
            << t, p >> \in { tp \in (0..MaxTotal) \X (0..MaxTotal) : tp[2] <= tp[1] } }

CompleteSnapshots ==
    UNION { { [status |-> "Complete", total |-> t,
               success |-> st[1], failed |-> st[2]] : st \in Tallies(t) } :
            t \in 0..MaxTotal }

\* a failed job, with and without the 'error' key
FailedSnapshots ==
    { [status |-> "Failed", error |-> "boom"], [status |-> "Failed"] }

PendingSnapshots == { [status |-> "Pending"] }

Snapshots ==
    InProgressSnapshots \cup CompleteSnapshots \cup FailedSnapshots \cup PendingSnapshots

\* huey.result(task_id): the stored value, None when there is none
HueyResult(store, id) == IF id \in DOMAIN store THEN store[id] ELSE PyNone

-----------------------------------------------------------------------------
(* check_task_status, lines 53-113 *)

Containers == { "progress_container", "status_container", "results_container" }

\* the page elements check_task_status writes; progress is the fraction
\* handed to st.progress, kept as << numerator, denominator >>
Nothing ==
    [kind |-> "Nothing", progress |-> << 0, 1 >>, processed |-> 0, total |-> 0,
     success |-> 0, failed |-> 0, error |-> ""]

\* lines 57-62: the three st.empty() placeholders, created once per session
WithContainers(ss) ==
    [k \in DOMAIN ss \cup Containers |-> IF k \in DOMAIN ss THEN ss[k] ELSE "st.empty"]

\* lines 68-86
RenderInProgress(result) ==
    LET total == Get(result, "total", 0)
        processed == Get(result, "processed", 0)
    IN  [kind |-> "In Progress",
         progress |-> IF total > 0 THEN << processed, total >> ELSE << 0, 1 >>,
         processed |-> processed, total |-> total,
         success |-> Get(result, "success", 0), failed |-> Get(result, "failed", 0),
         error |-> ""]

\* lines 88-101
RenderComplete(result) ==
    [kind |-> "Complete", progress |-> << 1, 1 >>, processed |-> 0,
     total |-> Get(result, "total", 0), success |-> Get(result, "success", 0),
     failed |-> Get(result, "failed", 0), error |-> ""]

\* line 107
RenderFailed(result) ==
    [Nothing EXCEPT !.kind = "Failed", !.error = Get(result, "error", "Unknown error")]

\* line 111
RenderError == [Nothing EXCEPT !.kind = "Error", !.error = "Error checking task status"]

\* ExceptHandler without lines 112-113
ExceptHandlerKeepsTask(ss, read, result) ==
    [session_state |-> ss, rendered |-> RenderError, held |-> TRUE, read |-> read,
     result |-> result, threw |-> TRUE, raised |-> FALSE]

\* lines 110-113: the handler of "except Exception"
ExceptHandler(ss, read, result) ==
    [session_state |-> IF "task_id" \in DOMAIN ss THEN Del(ss, "task_id") ELSE ss,
     rendered |-> RenderError, held |-> TRUE, read |-> read, result |-> result,
     threw |-> TRUE, raised |-> FALSE]

\* NotTracked reporting an error instead of returning
NotTrackedIsError(ss) ==
    [session_state |-> ss, rendered |-> RenderError, held |-> FALSE, read |-> FALSE,
     result |-> PyNone, threw |-> TRUE, raised |-> FALSE]

\* line 54 when no task id is stored: the function falls through and returns
NotTracked(ss) ==
    [session_state |-> ss, rendered |-> Nothing, held |-> FALSE, read |-> FALSE,
     result |-> PyNone, threw |-> FALSE, raised |-> FALSE]

\* OnComplete without line 104
OnCompleteKeepsTask(ss, result) ==
    [session_state |-> ss, rendered |-> RenderComplete(result),
     held |-> TRUE, read |-> TRUE, result |-> result, threw |-> FALSE, raised |-> FALSE]

\* lines 88-104: the job is complete
OnComplete(ss, result) ==
    [session_state |-> Del(ss, "task_id"), rendered |-> RenderComplete(result),
     held |-> TRUE, read |-> TRUE, result |-> result, threw |-> FALSE, raised |-> FALSE]

\* OnFailed without line 108
OnFailedKeepsTask(ss, result) ==
    [session_state |-> ss, rendered |-> RenderFailed(result),
     held |-> TRUE, read |-> TRUE, result |-> result, threw |-> FALSE, raised |-> FALSE]

\* lines 106-108: the job failed
OnFailed(ss, result) ==
    [session_state |-> Del(ss, "task_id"), rendered |-> RenderFailed(result),
     held |-> TRUE, read |-> TRUE, result |-> result, threw |-> FALSE, raised |-> FALSE]

\* OnInProgress without the drawing of lines 69-86
OnInProgressDrawsNothing(ss, result) ==
    [session_state |-> ss, rendered |-> Nothing,
     held |-> TRUE, read |-> TRUE, result |-> result, threw |-> FALSE, raised |-> FALSE]

\* lines 68-86: the job is running
OnInProgress(ss, result) ==
    [session_state |-> ss, rendered |-> RenderInProgress(result),
     held |-> TRUE, read |-> TRUE, result |-> result, threw |-> FALSE, raised |-> FALSE]

\* OnOther taking a missing result for a failure, as the handler of lines
\* 110-113 does an exception
OnOtherIsError(ss, result) ==
    [session_state |-> Del(ss, "task_id"), rendered |-> RenderError,
     held |-> TRUE, read |-> TRUE, result |-> result, threw |-> FALSE, raised |-> FALSE]

\* line 67 false, or no branch of lines 68-108 taken: nothing is drawn
OnOther(ss, result) ==
    [session_state |-> ss, rendered |-> Nothing,
     held |-> TRUE, read |-> TRUE, result |-> result, threw |-> FALSE, raised |-> FALSE]

\* exc names the statement of the try block that raises in this call:
\* "read" is huey.result (line 65), "render" the first Streamlit call of the
\* branch taken (lines 73, 90), "none" is no exception.
\* held: a task id was stored when the call began; read: huey.result returned;
\* threw: the try block raised; raised: an exception left the function.
check_task_status(ss, store, exc) ==
    IF "task_id" \notin DOMAIN ss
    THEN NotTracked(ss)
    ELSE
      LET ss1 == WithContainers(ss)
          result == HueyResult(store, ss1["task_id"])
          status == Get(result, "status", "")
      IN  IF exc = "read" THEN ExceptHandler(ss1, FALSE, PyNone)
          ELSE IF Truthy(result) /\ status = "In Progress"
          THEN IF exc = "render" THEN ExceptHandler(ss1, TRUE, result)
               ELSE OnInProgress(ss1, result)
          ELSE IF Truthy(result) /\ status = "Complete"
          THEN IF exc = "render" THEN ExceptHandler(ss1, TRUE, result)
               ELSE OnComplete(ss1, result)
          ELSE IF Truthy(result) /\ status = "Failed"
          THEN OnFailed(ss1, result)
          ELSE OnOther(ss1, result)

-----------------------------------------------------------------------------
(* The form handler, lines 205-233 *)

NoJob == PyNone

\* line 214
IsinList(text) == StripNonBlank(Split(text))

\* FormError without lines 210-212
FormErrorNoDateCheck(w, enqueue_ok) ==
    IF w.isin_input = << >> \/ w.s3_bucket = "" \/ w.doc_types = {}
    THEN "Please fill in all required fields"
    ELSE IF IsinList(w.isin_input) = << >>
    THEN "Please enter at least one valid ISIN"
    ELSE IF ~enqueue_ok
    THEN "An error occurred"
    ELSE ""

\* FormError with lines 210-212 moved before lines 206-208
FormErrorDateFirst(w, enqueue_ok) ==
    IF DateGT(w.start_date, w.end_date)
    THEN "Start date must be before end date"
    ELSE IF w.isin_input = << >> \/ w.s3_bucket = "" \/ w.doc_types = {}
    THEN "Please fill in all required fields"
    ELSE IF IsinList(w.isin_input) = << >>
    THEN "Please enter at least one valid ISIN"
    ELSE IF ~enqueue_ok
    THEN "An error occurred"
    ELSE ""

\* FormError with the except clause of lines 231-233 left out: a failed
\* enqueue is taken for a successful one
FormErrorIgnoresEnqueueFailure(w, enqueue_ok) ==
    IF w.isin_input = << >> \/ w.s3_bucket = "" \/ w.doc_types = {}
    THEN "Please fill in all required fields"
    ELSE IF DateGT(w.start_date, w.end_date)
    THEN "Start date must be before end date"
    ELSE IF IsinList(w.isin_input) = << >>
    THEN "Please enter at least one valid ISIN"
    ELSE ""

\* The st.error the handler shows before it returns, "" when it dispatches.
\* enqueue_ok tells whether process_files_task(...) returns a task (line 221)
\* or raises (line 231).
FormError(w, enqueue_ok) ==
    IF w.isin_input = << >> \/ w.s3_bucket = "" \/ w.doc_types = {}
    THEN "Please fill in all required fields"
    ELSE IF DateGT(w.start_date, w.end_date)
    THEN "Start date must be before end date"
    ELSE IF IsinList(w.isin_input) = << >>
    THEN "Please enter at least one valid ISIN"
    ELSE IF ~enqueue_ok
    THEN "An error occurred"
    ELSE ""

\* lines 221-227: the arguments handed to process_files_task
JobArgs(w) ==
    [isin_list |-> IsinList(w.isin_input),
     start_date |-> Strftime(w.start_date),
     end_date |-> Strftime(w.end_date),
     doc_types |-> w.doc_types,
     s3_bucket |-> w.s3_bucket]

-----------------------------------------------------------------------------
(* test_queue_connection, lines 115-137 *)

NoProbe == [shown |-> FALSE, success |-> FALSE, message |-> "", detail |-> ""]

\* what ping() and task.get(blocking=True, timeout=15) can do
ProbeOutcomes ==
    { [kind |-> "response", value |-> "pong"],
      [kind |-> "response", value |-> "pang"],
      [kind |-> "TaskException", value |-> "task failed"],
      [kind |-> "TimeoutError", value |-> ""],
      [kind |-> "Exception", value |-> "wait failed"],
      [kind |-> "EnqueueError", value |-> "connection refused"] }

NoOutcome == [kind |-> "none", value |-> ""]

\* line 123: ping() hands back a task, or raises
Queued == [kind |-> "queued", value |-> ""]
PingOutcomes == { Queued } \cup { o \in ProbeOutcomes : o.kind = "EnqueueError" }

\* line 127: what task.get(blocking=True, timeout=15) returns or raises before
\* its timeout is over
EarlyOutcomes == { o \in ProbeOutcomes : o.kind \in { "response", "TaskException", "Exception" } }

TimeoutOutcome == CHOOSE o \in ProbeOutcomes : o.kind = "TimeoutError"

\* task.get(blocking=True) of line 127 without its timeout argument
WaitExpiredNever(elapsed) == FALSE

\* line 127: timeout=15, the wait is over after ProbeTimeout seconds
ProbeTimeout == 15
WaitExpired(elapsed) == elapsed >= ProbeTimeout

\* test_queue_connection without the comparison of line 128: every response
\* counts as "pong"
test_queue_connectionAnyResponse(outcome) ==
    IF outcome.kind = "response"
    THEN [shown |-> TRUE, success |-> TRUE,
          message |-> "Queue connection successful!", detail |-> ""]
    ELSE IF outcome.kind = "TaskException"
    THEN [shown |-> TRUE, success |-> FALSE, message |-> "Task execution failed",
          detail |-> outcome.value]
    ELSE IF outcome.kind = "TimeoutError"
    THEN [shown |-> TRUE, success |-> FALSE,
          message |-> "Queue connection timed out. Worker might be unavailable.",
          detail |-> ""]
    ELSE [shown |-> TRUE, success |-> FALSE, message |-> "Queue connection failed",
          detail |-> outcome.value]

\* test_queue_connection without the outer try of lines 119 and 136-137: an
\* exception of ping(), or one of task.get that lines 132-135 do not catch,
\* leaves the function and nothing is returned
test_queue_connectionNoOuterExcept(outcome) ==
    IF outcome.kind = "response"
    THEN IF outcome.value = "pong"
         THEN [shown |-> TRUE, success |-> TRUE,
               message |-> "Queue connection successful!", detail |-> ""]
         ELSE [shown |-> TRUE, success |-> FALSE,
               message |-> "Unexpected response from queue", detail |-> outcome.value]
    ELSE IF outcome.kind = "TaskException"
    THEN [shown |-> TRUE, success |-> FALSE, message |-> "Task execution failed",
          detail |-> outcome.value]
    ELSE IF outcome.kind = "TimeoutError"
    THEN [shown |-> TRUE, success |-> FALSE,
          message |-> "Queue connection timed out. Worker might be unavailable.",
          detail |-> ""]
    ELSE NoProbe

test_queue_connection(outcome) ==
    IF outcome.kind = "EnqueueError"
    THEN [shown |-> TRUE, success |-> FALSE, message |-> "Queue connection failed",
          detail |-> outcome.value]
    ELSE IF outcome.kind = "response"
    THEN IF outcome.value = "pong"
         THEN [shown |-> TRUE, success |-> TRUE,
               message |-> "Queue connection successful!", detail |-> ""]
         ELSE [shown |-> TRUE, success |-> FALSE,
               message |-> "Unexpected response from queue", detail |-> outcome.value]
    ELSE IF outcome.kind = "TaskException"
    THEN [shown |-> TRUE, success |-> FALSE, message |-> "Task execution failed",
          detail |-> outcome.value]
    ELSE IF outcome.kind = "TimeoutError"
    THEN [shown |-> TRUE, success |-> FALSE,
          message |-> "Queue connection timed out. Worker might be unavailable.",
          detail |-> ""]
    ELSE [shown |-> TRUE, success |-> FALSE, message |-> "Queue connection failed",
          detail |-> outcome.value]

-----------------------------------------------------------------------------
(* main, lines 148-241 *)

\* lines 44-47
InitSessionState(ss) ==
    [k \in DOMAIN ss \cup {"processing_complete", "processed_files"} |->
        IF k \in DOMAIN ss THEN ss[k]
        ELSE IF k = "processing_complete" THEN "False" ELSE "[]"]

\* FormOffered without the test of line 169
FormOfferedAlways(ss) == TRUE

\* line 169: "Only show form if no task is running"
FormOffered(ss) == "task_id" \notin DOMAIN ss

\* PressTestQueue keeping the task ping() returns as the session's task id
PressTestQueueTracksPing(base, outcome) ==
    IF outcome.kind = "EnqueueError"
    THEN [base EXCEPT !.probe = test_queue_connection(outcome)]
    ELSE [base EXCEPT !.waiting = TRUE,
                      !.session_state = Put(base.session_state, "task_id", 0)]

\* lines 236-237, 121-123: the button is pressed and ping() is called; base is
\* what the run has done before it reaches the button
PressTestQueue(base, outcome) ==
    IF outcome.kind = "EnqueueError"
    THEN [base EXCEPT !.probe = test_queue_connection(outcome)]
    ELSE [base EXCEPT !.waiting = TRUE]      \* line 127: task.get blocks

\* One execution of main().  event is what the browser sent: "submit" (the
\* form's button), "probe" (the queue test button) or "none" (a load, a
\* refresh tick, a rerun).  The result tells what the run left behind; a run
\* of the queue test whose ping() was queued is left waiting in task.get.
main(ok, ss, store, w, next_id, event, exc, enqueue_ok, outcome) ==
    IF ~ok
    THEN \* lines 153-163
         [session_state |-> ss, rendered |-> Nothing, form_error |-> "",
          probe |-> NoProbe, form |-> FALSE, button |-> FALSE, rerun |-> FALSE,
          job |-> NoJob, held |-> FALSE, read |-> FALSE, result |-> PyNone,
          threw |-> FALSE, raised |-> FALSE, env_error |-> TRUE,
          enqueue |-> "none", waiting |-> FALSE]
    ELSE
      LET cts == check_task_status(ss, store, exc)      \* line 166
          ss1 == cts.session_state
          form == FormOffered(ss1)                      \* line 169
          submitted == form /\ event = "submit"         \* line 205
          error == FormError(w, enqueue_ok)
          \* line 221 is reached when the three checks before it pass
          called == IF ~(submitted /\ FormError(w, TRUE) = "") THEN "none"
                    ELSE IF enqueue_ok THEN "ok" ELSE "failed"
          base == [session_state |-> ss1, rendered |-> cts.rendered, form_error |-> "",
                   probe |-> NoProbe, form |-> form, button |-> TRUE, rerun |-> FALSE,
                   job |-> NoJob, held |-> cts.held, read |-> cts.read,
                   result |-> cts.result, threw |-> cts.threw, raised |-> FALSE,
                   env_error |-> FALSE, enqueue |-> "none", waiting |-> FALSE]
      IN  IF cts.raised
          THEN [base EXCEPT !.form = FALSE, !.button = FALSE, !.raised = TRUE]
          ELSE IF submitted /\ error # ""
          THEN \* lines 207-208, 211-212, 216-217, 232-233: st.error, return
               [base EXCEPT !.form_error = error, !.button = FALSE,
                            !.enqueue = called]
          ELSE IF submitted
          THEN \* lines 221-230
               [base EXCEPT !.session_state = Put(ss1, "task_id", next_id),
                            !.job = JobArgs(w), !.rerun = TRUE, !.button = FALSE,
                            !.enqueue = called]
          ELSE IF event = "probe"
          THEN PressTestQueue(base, outcome)
          ELSE base

-----------------------------------------------------------------------------
(* The form's widgets, lines 171-201 *)

AllDocTypes == { "slides", "report", "transcript", "audio" }

\* the values the widgets show when the form is first drawn
DefaultWidgets ==
    [isin_input |-> << >>, start_date |-> << 2024, 1, 1 >>,
     end_date |-> << 2024, 12, 31 >>, doc_types |-> AllDocTypes, s3_bucket |-> ""]

CurrentWidgets ==
    [isin_input |-> isin_input, start_date |-> start_date, end_date |-> end_date,
     doc_types |-> doc_types, s3_bucket |-> s3_bucket]

SetWidgets(w) ==
    /\ isin_input' = w.isin_input
    /\ start_date' = w.start_date
    /\ end_date' = w.end_date
    /\ doc_types' = w.doc_types
    /\ s3_bucket' = w.s3_bucket

\* all texts of at most n characters over an alphabet
Texts(alphabet, n) == UNION { [1..k -> alphabet] : k \in 0..n }

\* the fillings of the form the operator chooses among in the tracker runs:
\* nothing entered, a complete form, a blank ISIN text, dates the wrong way round
TypedForms ==
    { DefaultWidgets,
      [DefaultWidgets EXCEPT !.isin_input = << "A" >>, !.s3_bucket = "bucket-x"],
      [DefaultWidgets EXCEPT !.isin_input = << " " >>, !.s3_bucket = "bucket-x"],
      [DefaultWidgets EXCEPT !.isin_input = << "A" >>, !.s3_bucket = "bucket-x",
                             !.start_date = << 2025, 1, 1 >>] }

\* what the operator enters in the form-handler runs
FormTexts == Texts({ "A", "B", " ", "\n" }, MaxText)
FormDates == { << 2023, 12, 31 >>, << 2024, 1, 1 >>, << 2024, 12, 31 >> }
FormDocTypes == { {}, { "slides" } }
FormBuckets == { "", "bucket-x" }

-----------------------------------------------------------------------------
(* The session *)

Exceptions == { "none", "read", "render" }

NoRun ==
    [trigger |-> "none", held |-> FALSE, read |-> FALSE, result |-> PyNone,
     threw |-> FALSE, raised |-> FALSE, env_error |-> FALSE, enqueue |-> "none"]

\* A new browser session: nothing in st.session_state, the first run due
Init ==
    /\ env_ok \in BOOLEAN
    /\ session_state = << >>
    /\ result_store = << >>
    /\ n_enqueued = 0
    /\ last_job = NoJob
    /\ isin_input = DefaultWidgets.isin_input
    /\ start_date = DefaultWidgets.start_date
    /\ end_date = DefaultWidgets.end_date
    /\ doc_types = DefaultWidgets.doc_types
    /\ s3_bucket = DefaultWidgets.s3_bucket
    /\ autorefresh = FALSE
    /\ refresh_count = 0
    /\ form_shown = FALSE
    /\ button_shown = FALSE
    /\ run_pending = TRUE
    /\ rendered = Nothing
    /\ form_error = ""
    /\ probe = NoProbe
    /\ probe_outcome = NoOutcome
    /\ probe_wait = -1
    /\ last_run = NoRun

\* One execution of the script, lines 43-51 and main()
ScriptRun(trigger, event, exc, enqueue_ok, outcome) ==
    \E m \in { main(env_ok, InitSessionState(session_state), result_store,
                    CurrentWidgets, n_enqueued + 1, event, exc, enqueue_ok, outcome) } :
        /\ autorefresh' = ("task_id" \in DOMAIN session_state)      \* lines 50-51
        /\ session_state' = m.session_state
        /\ rendered' = m.rendered
        /\ form_error' = m.form_error
        /\ probe' = m.probe
        /\ probe_outcome' = IF m.probe.shown THEN outcome ELSE NoOutcome
        /\ probe_wait' = IF m.waiting THEN 0 ELSE -1
        /\ form_shown' = m.form
        /\ button_shown' = m.button
        /\ run_pending' = m.rerun                         \* line 230
        /\ n_enqueued' = IF m.rerun THEN n_enqueued + 1 ELSE n_enqueued
        /\ last_job' = IF m.rerun THEN m.job ELSE last_job
           \* the entry of a new task is not written yet when the queue returns
           \* it; the entry of a task id the session dropped is no longer tracked
        /\ result_store' = IF m.rerun \/ "task_id" \notin DOMAIN m.session_state
                           THEN << >> ELSE result_store
           \* Streamlit forgets the value of a widget a run did not draw
        /\ SetWidgets(IF m.form THEN CurrentWidgets ELSE DefaultWidgets)
        /\ last_run' = [trigger |-> trigger, held |-> m.held, read |-> m.read,
                        result |-> m.result, threw |-> m.threw,
                        raised |-> m.raised, env_error |-> m.env_error,
                        enqueue |-> m.enqueue]
        /\ UNCHANGED env_ok

\* the first load of the page, and the run st.experimental_rerun() asks for
PageRun ==
    /\ run_pending
    /\ probe_wait = -1
    /\ UNCHANGED refresh_count
    /\ \E exc \in Exceptions :
          ScriptRun("rerun", "none", exc, TRUE, CHOOSE o \in ProbeOutcomes : TRUE)

\* the st_autorefresh component is on the page and no run is going on or due:
\* its timer fires and it counts one more refresh
TimerFires ==
    /\ ~run_pending
    /\ probe_wait = -1
    /\ autorefresh
    /\ refresh_count' = (refresh_count + 1) % 2

\* st_autorefresh(interval=10000) reruns the script while it is on the page
AutoRefreshTick ==
    /\ TimerFires
    /\ \E exc \in Exceptions :
          ScriptRun("tick", "none", exc, TRUE, CHOOSE o \in ProbeOutcomes : TRUE)

\* the operator presses "Start Processing"
ClickSubmit ==
    /\ ~run_pending
    /\ probe_wait = -1
    /\ form_shown
    /\ n_enqueued < MaxJobs
    /\ UNCHANGED refresh_count
    /\ \E exc \in Exceptions, enqueue_ok \in BOOLEAN :
          ScriptRun("submit", "submit", exc, enqueue_ok,
                    CHOOSE o \in ProbeOutcomes : TRUE)

\* the operator presses "Test Queue Connection"
ClickTestQueue ==
    /\ ~run_pending
    /\ probe_wait = -1
    /\ button_shown
    /\ UNCHANGED refresh_count
    /\ \E exc \in Exceptions, outcome \in PingOutcomes :
          ScriptRun("probe", "probe", exc, TRUE, outcome)

\* the run of the queue test goes on from task.get to the end of main()
ProbeReturn(outcome) ==
    /\ probe' = test_queue_connection(outcome)          \* lines 128-137, 238-241
    /\ probe_outcome' = outcome
    /\ probe_wait' = -1
    /\ UNCHANGED << env_ok, session_state, result_store, n_enqueued, last_job, widgets,
                    autorefresh, refresh_count, form_shown, button_shown, run_pending,
                    rendered, form_error, last_run >>

\* task.get finds no result yet and its timeout is not over: it goes on waiting
ProbeWait ==
    /\ probe_wait >= 0
    /\ probe_wait < MaxWait
    /\ ~WaitExpired(probe_wait)
    /\ probe_wait' = probe_wait + WaitStep
    /\ UNCHANGED << env_ok, session_state, result_store, n_enqueued, last_job, widgets,
                    autorefresh, refresh_count, form_shown, button_shown, run_pending,
                    rendered, form_error, probe, probe_outcome, last_run >>

\* the worker's answer, or an exception, ends the wait before the timeout
ProbeResponds ==
    /\ probe_wait >= 0
    /\ ~WaitExpired(probe_wait)
    /\ \E outcome \in EarlyOutcomes : ProbeReturn(outcome)

\* the timeout of task.get is over: TimeoutError
ProbeTimesOut ==
    /\ probe_wait >= 0
    /\ WaitExpired(probe_wait)
    /\ ProbeReturn(TimeoutOutcome)

\* the operator fills in the form; widgets inside st.form do not rerun the script
EditForm ==
    /\ ~run_pending
    /\ form_shown
    /\ \E w \in TypedForms : SetWidgets(w)
    /\ UNCHANGED << env_ok, session_state, result_store, n_enqueued, last_job,
                    autorefresh, refresh_count, form_shown, button_shown, run_pending, rendered,
                    form_error, probe, probe_outcome, probe_wait, last_run >>

\* a worker stores a snapshot of the job under its task id
WorkerWrite ==
    /\ "task_id" \in DOMAIN session_state
    /\ \E snap \in Snapshots : result_store' = (session_state["task_id"] :> snap)
    /\ UNCHANGED << env_ok, session_state, n_enqueued, last_job, widgets, autorefresh,
                    refresh_count, form_shown, button_shown, run_pending, rendered, form_error,
                    probe, probe_outcome, probe_wait, last_run >>

\* the store drops the entry when its time-to-live is over
StoreExpire ==
    /\ result_store # << >>
    /\ result_store' = << >>
    /\ UNCHANGED << env_ok, session_state, n_enqueued, last_job, widgets, autorefresh,
                    refresh_count, form_shown, button_shown, run_pending, rendered, form_error,
                    probe, probe_outcome, probe_wait, last_run >>

Next ==
    \/ PageRun
    \/ AutoRefreshTick
    \/ ClickSubmit
    \/ ClickTestQueue
    \/ ProbeWait
    \/ ProbeResponds
    \/ ProbeTimesOut
    \/ EditForm
    \/ WorkerWrite
    \/ StoreExpire

Spec == Init /\ [][Next]_vars

\* the refresh timer fires while the component is on the page (a step that
\* advances its counter is a step of AutoRefreshTick, no other action does),
\* a run that is due is carried out, and a wait in task.get looks at the
\* clock until it ends
FairSpec ==
    /\ Spec
    /\ WF_refresh_count(TimerFires) /\ WF_vars(PageRun)
    /\ WF_vars(ProbeWait) /\ WF_vars(ProbeTimesOut)

-----------------------------------------------------------------------------
(* The session while no worker is running: nothing is written to the      *)
(* result store and a ping is answered, if at all, by the queue itself.    *)
(* A wait in task.get looks at the clock again and again, and its timeout  *)
(* is raised when it is over.                                              *)

NoWorkerNext ==
    \/ PageRun
    \/ AutoRefreshTick
    \/ ClickSubmit
    \/ ClickTestQueue
    \/ ProbeWait
    \/ ProbeResponds
    \/ ProbeTimesOut
    \/ EditForm

NoWorkerSpec ==
    /\ Init
    /\ [][NoWorkerNext]_vars
    /\ WF_vars(ProbeWait) /\ WF_vars(ProbeTimesOut)

-----------------------------------------------------------------------------
(* The tracking of one job: the operator has pressed "Start Processing"    *)
(* on a complete form, the queue has accepted the job and the rerun of     *)
(* line 230 is due.  The refresh timer fires while the component is on the *)
(* page, and a run that is due is carried out.                             *)

SubmittedForm ==
    [DefaultWidgets EXCEPT !.isin_input = << "A" >>, !.s3_bucket = "bucket-x"]

TrackInit ==
    /\ env_ok = TRUE
    /\ session_state = Put(InitSessionState(<< >>), "task_id", 1)
    /\ result_store = << >>
    /\ n_enqueued = 1
    /\ last_job = JobArgs(SubmittedForm)
    /\ isin_input = SubmittedForm.isin_input
    /\ start_date = SubmittedForm.start_date
    /\ end_date = SubmittedForm.end_date
    /\ doc_types = SubmittedForm.doc_types
    /\ s3_bucket = SubmittedForm.s3_bucket
    /\ autorefresh = FALSE
    /\ refresh_count = 0
    /\ form_shown = TRUE
    /\ button_shown = FALSE
    /\ run_pending = TRUE
    /\ rendered = Nothing
    /\ form_error = ""
    /\ probe = NoProbe
    /\ probe_outcome = NoOutcome
    /\ probe_wait = -1
    /\ last_run = [NoRun EXCEPT !.trigger = "submit", !.enqueue = "ok"]

TrackNext ==
    \/ PageRun
    \/ AutoRefreshTick
    \/ WorkerWrite
    \/ StoreExpire

TrackSpec ==
    /\ TrackInit
    /\ [][TrackNext]_vars
    /\ WF_refresh_count(TimerFires) /\ WF_vars(PageRun)

-----------------------------------------------------------------------------
(* The form handler on its own: the page is idle with the form filled in,  *)
(* and the operator presses "Start Processing".                           *)

FormInit ==
    /\ env_ok = TRUE
    /\ session_state = InitSessionState(<< >>)
    /\ result_store = << >>
    /\ n_enqueued = 0
    /\ last_job = NoJob
    /\ isin_input \in FormTexts
    /\ start_date \in FormDates
    /\ end_date \in FormDates
    /\ doc_types \in FormDocTypes
    /\ s3_bucket \in FormBuckets
    /\ autorefresh = FALSE
    /\ refresh_count = 0
    /\ form_shown = TRUE
    /\ button_shown = TRUE
    /\ run_pending = FALSE
    /\ rendered = Nothing
    /\ form_error = ""
    /\ probe = NoProbe
    /\ probe_outcome = NoOutcome
    /\ probe_wait = -1
    /\ last_run = [NoRun EXCEPT !.trigger = "rerun"]

FormNext ==
    \/ ClickSubmit
    \/ PageRun

FormSpec == FormInit /\ [][FormNext]_vars

-----------------------------------------------------------------------------
(* Properties *)

Held == "task_id" \in DOMAIN session_state

\* the entry of the held task id is missing from the store
Absent == Held /\ ~Truthy(HueyResult(result_store, session_state["task_id"]))

\* a/b <= c/d for fractions << a, b >>, << c, d >> with positive denominators
FracLE(x, y) == x[1] * y[2] <= y[1] * x[2]

Terminal == { "Complete", "Failed" }

LastStatus == Get(last_run.result, "status", "")

\* C1: across two successive In-Progress reads for the same held task id the
\* rendered processed count and the rendered progress fraction do not decrease.
C1_RenderedProgressNeverDecreases ==
    [][ ( /\ Held /\ Held'
          /\ session_state'["task_id"] = session_state["task_id"]
          /\ rendered.kind = "In Progress"
          /\ rendered'.kind = "In Progress" )
        => ( /\ rendered'.processed >= rendered.processed
             /\ FracLE(rendered.progress, rendered'.progress) ) ]_vars

\* C2: a run whose poll read a Complete or a Failed snapshot (and whose drawing
\* did not raise) has drawn the final tallies of that snapshot, or its error
\* message, and leaves no task id in the session state; the form is offered again.
C2_TerminalSnapshotDisposesHandle ==
    (last_run.read /\ LastStatus \in Terminal /\ ~last_run.threw) =>
        /\ ~Held
        /\ form_shown
        /\ LastStatus = "Complete" =>
              /\ rendered.kind = "Complete"
              /\ rendered.progress = << 1, 1 >>
              /\ rendered.total = last_run.result.total
              /\ rendered.success = last_run.result.success
              /\ rendered.failed = last_run.result.failed
        /\ LastStatus = "Failed" =>
              /\ rendered.kind = "Failed"
              /\ rendered.error = IF "error" \in DOMAIN last_run.result
                                  THEN last_run.result.error ELSE "Unknown error"

C2_Witness ==
    /\ last_run.read /\ LastStatus = "Failed" /\ ~last_run.threw
    /\ rendered.error = "boom"
    /\ n_enqueued = 2

\* C3: a job is enqueued only in a run that began with no task id held, a held
\* task id is never replaced by another, and the form is on the page only when
\* no task id is held.
C3_SingleFlight ==
    [][ /\ (n_enqueued' # n_enqueued => ~Held)
        /\ (Held /\ Held' => session_state'["task_id"] = session_state["task_id"])
        /\ (form_shown' /\ ~run_pending' => ~Held') ]_vars

\* the second job of the session is in flight and the operator has used the page
C3_Witness ==
    Held /\ n_enqueued = 2 /\ last_run.trigger = "probe" /\ ~form_shown

\* C4: when the try block of the poll raises while a task id is held, the
\* exception does not leave check_task_status, the error is drawn and the task
\* id is gone after the run.
C4_PollExceptionDisposesHandle ==
    (last_run.held /\ last_run.threw) =>
        /\ ~last_run.raised
        /\ rendered.kind = "Error"
        /\ ~Held

C4_Witness ==
    /\ last_run.held /\ last_run.threw /\ last_run.read
    /\ LastStatus = "In Progress"
    /\ ~Held

\* C5: when the entry of the held task id stays absent from the store, the
\* tracker ends in Failed and the task id is disposed of.
C5_AbsentEntryEventuallyFails ==
    []( ([]Absent) => <>(~Held /\ rendered.kind = "Failed") )

\* a script run of any kind: each calls check_task_status (line 166)
ScriptRunStep == PageRun \/ AutoRefreshTick \/ ClickSubmit \/ ClickTestQueue

\* C6 as claimed: a poll after the poll that drew Complete or Failed and
\* disposed of the task id is reported as an error.
C6_PollAfterDisposalIsError ==
    [][ (~Held /\ rendered.kind \in Terminal /\ ScriptRunStep)
        => (rendered'.kind = "Error" \/ last_run'.raised) ]_vars

\* C6, amended: such a poll is a silent no-op: check_task_status returns
\* normally, reads nothing from the store, draws nothing, and leaves the
\* session state as it found it.
C6_PollAfterDisposalIsNoOp ==
    [][ (~Held /\ rendered.kind \in Terminal /\ ScriptRunStep)
        => ( /\ ~last_run'.held /\ ~last_run'.read
             /\ ~last_run'.threw /\ ~last_run'.raised
             /\ rendered' = Nothing
             /\ \A k \in DOMAIN session_state :
                   k \in DOMAIN session_state' /\ session_state'[k] = session_state[k]
             /\ DOMAIN session_state' \subseteq DOMAIN session_state \cup {"task_id"} ) ]_vars

\* the refresh timer has fired on a session whose task id was disposed of
C6_Witness ==
    /\ last_run.trigger = "tick" /\ ~last_run.held
    /\ ~Held /\ n_enqueued > 0 /\ rendered = Nothing

-----------------------------------------------------------------------------
(* Properties of the form handler, stated on the input as the operator sees it *)

Blank(c) == c \in { " ", "\t", "\n", "\r" }

\* days since a fixed origin, in a calendar of 12 months of 31 days: it orders
\* dates as the calendar does
Ordinal(d) == (d[1] * 12 + (d[2] - 1)) * 31 + (d[3] - 1)

After(a, b) == Ordinal(a) > Ordinal(b)

NoDestination(w) == w.s3_bucket = ""
NoDocKinds(w) == w.doc_types = {}
BadRange(w) == After(w.start_date, w.end_date)
EmptyText(w) == Len(w.isin_input) = 0
NoIdentifier(w) == \A i \in 1..Len(w.isin_input) : Blank(w.isin_input[i])

InvalidInput(w) == NoDestination(w) \/ NoDocKinds(w) \/ BadRange(w) \/ NoIdentifier(w)

RequiredFieldsError == "Please fill in all required fields"
DateRangeError == "Start date must be before end date"
NoIsinError == "Please enter at least one valid ISIN"

\* C7: a press of "Start Processing" on an input that breaks a validation rule
\* enqueues nothing and leaves the session state as it was, with no task id.
C7_InvalidSubmitChangesNothing ==
    [][ (ClickSubmit /\ InvalidInput(CurrentWidgets))
        => ( /\ n_enqueued' = n_enqueued
             /\ last_job' = last_job
             /\ session_state' = session_state
             /\ ~Held'
             /\ ~run_pending'
             /\ form_error' # "" ) ]_vars

C7_Witness ==
    /\ last_run.trigger = "submit"
    /\ isin_input = << " ", "\n", " " >>
    /\ s3_bucket = "bucket-x" /\ doc_types # {} /\ ~After(start_date, end_date)
    /\ form_error = NoIsinError
    /\ ~Held /\ n_enqueued = 0

\* C8 as claimed, in the case the claim gives: the rules are checked in the
\* order destination, document kinds, date range, identifiers, so when a
\* destination and a document kind are given and start > end, the error shown
\* is the date error, whatever the identifier text is.
C8_FirstBrokenRuleInClaimedOrder ==
    ( /\ last_run.trigger = "submit"
      /\ ~NoDestination(CurrentWidgets) /\ ~NoDocKinds(CurrentWidgets)
      /\ BadRange(CurrentWidgets) )
    => form_error = DateRangeError

\* C8, amended: the checks are, in order, (1) identifier text, destination and
\* document kinds all non-empty, with one shared error, (2) start <= end,
\* (3) a non-blank identifier; the error shown is that of the first check that
\* fails, and the three errors differ.
C8_FirstFailedCheck ==
    /\ Cardinality({ RequiredFieldsError, DateRangeError, NoIsinError }) = 3
    /\ (last_run.trigger = "submit" /\ InvalidInput(CurrentWidgets)) =>
          form_error =
             IF EmptyText(CurrentWidgets) \/ NoDestination(CurrentWidgets)
                \/ NoDocKinds(CurrentWidgets)
             THEN RequiredFieldsError
             ELSE IF BadRange(CurrentWidgets) THEN DateRangeError
             ELSE NoIsinError

\* start > end together with an empty identifier text
C8_Witness ==
    /\ last_run.trigger = "submit"
    /\ isin_input = << >> /\ After(start_date, end_date)
    /\ s3_bucket # "" /\ doc_types # {}
    /\ form_error = RequiredFieldsError

\* the lines of a text, by the positions of its newlines
Newlines(text) == { i \in 1..Len(text) : text[i] = "\n" }

NumLines(text) == Cardinality(Newlines(text)) + 1

\* the position of the n-th newline; 0 before the first line, Len + 1 after the last
Boundary(text, n) ==
    IF n = 0 THEN 0
    ELSE IF n = NumLines(text) THEN Len(text) + 1
    ELSE CHOOSE i \in Newlines(text) :
            Cardinality({ j \in Newlines(text) : j <= i }) = n

Line(text, k) == SubSeq(text, Boundary(text, k - 1) + 1, Boundary(text, k) - 1)

NonBlankLine(line) == \E i \in 1..Len(line) : ~Blank(line[i])

Trimmed(line) ==
    LET keep == { i \in 1..Len(line) : ~Blank(line[i]) }
        first == CHOOSE i \in keep : \A j \in keep : i <= j
        last == CHOOSE i \in keep : \A j \in keep : j <= i
    IN  SubSeq(line, first, last)

\* the non-blank lines of the text, trimmed, in the order of the text
TrimmedNonBlankLines(text) ==
    LET nb == { k \in 1..NumLines(text) : NonBlankLine(Line(text, k)) }
    IN  [i \in 1..Cardinality(nb) |->
            Trimmed(Line(text, CHOOSE k \in nb : Cardinality({ j \in nb : j <= k }) = i))]

\* C9: the identifier list handed to the queue is the sequence of the input's
\* non-blank lines, trimmed, in order, repeats kept; no element of it is empty
\* or begins or ends with whitespace.
C9_DispatchedIdentifiers ==
    (last_run.trigger = "submit" /\ run_pending) =>
        /\ last_job.isin_list = TrimmedNonBlankLines(isin_input)
        /\ Len(last_job.isin_list) >= 1
        /\ \A i \in 1..Len(last_job.isin_list) :
              LET id == last_job.isin_list[i]
              IN  Len(id) >= 1 /\ ~Blank(id[1]) /\ ~Blank(id[Len(id)])

C9_Witness ==
    /\ last_run.trigger = "submit" /\ run_pending
    /\ isin_input = << "A", "\n", "\n", " ", "B" >>
    /\ last_job.isin_list = << << "A" >>, << "B" >> >>

\* C10: a submission with start after end is rejected and dispatches nothing,
\* whatever the other inputs; start = end does not raise the date error, and
\* is dispatched when the other inputs are valid and the queue accepts the job.
C10_StartAfterEndRejected ==
    (last_run.trigger = "submit") =>
        /\ After(start_date, end_date) =>
              form_error # "" /\ ~run_pending /\ ~Held /\ n_enqueued = 0
        /\ start_date = end_date => form_error # DateRangeError
        /\ (start_date = end_date /\ ~InvalidInput(CurrentWidgets)) =>
              (form_error = "An error occurred" \/ (run_pending /\ Held))

C10_Witness ==
    /\ last_run.trigger = "submit"
    /\ start_date = end_date
    /\ run_pending /\ Held /\ n_enqueued = 1

\* C11: when process_files_task raises, the error is shown, no task id is
\* stored, nothing reruns the script by itself (no rerun is due and the
\* refresh component is not on the page), and the queue accepted no job;
\* process_files_task is called only in the run of a press of "Start
\* Processing", so one press makes at most one call.
C11_FailedEnqueueLeavesIdle ==
    /\ [](last_run.enqueue = "failed" =>
             /\ last_run.trigger = "submit"
             /\ form_error = "An error occurred"
             /\ ~Held
             /\ ~run_pending
             /\ ~autorefresh
             /\ probe_wait = -1)
    /\ [][ /\ last_run'.enqueue = "failed" => n_enqueued' = n_enqueued
           /\ n_enqueued' \in { n_enqueued, n_enqueued + 1 }
           /\ ~ClickSubmit => (last_run' = last_run \/ last_run'.enqueue = "none") ]_vars

C11_Witness ==
    /\ last_run.enqueue = "failed"
    /\ form_error = "An error occurred"
    /\ ~Held

-----------------------------------------------------------------------------
(* The queue test *)

OkMessage == "Queue connection successful!"
UnexpectedResponseMessage == "Unexpected response from queue"
ExecutionFailedMessage == "Task execution failed"
TimedOutMessage == "Queue connection timed out. Worker might be unavailable."
ConnectionFailedMessage == "Queue connection failed"

\* the four results the claims name
FourResults ==
    { OkMessage, UnexpectedResponseMessage, ExecutionFailedMessage, TimedOutMessage }

\* a queue test has returned and its result is on the page
Probed == probe.shown /\ probe_outcome # NoOutcome

\* C12: the answer "pong" is reported as success; another answer v as an
\* unexpected response that carries v; a TaskException as an execution
\* failure with its reason; a TimeoutError as a timeout.  The four reports
\* differ pairwise (each message is shown for its own outcome only) and only
\* "pong" is a success.
C12_OutcomesClassified ==
    Probed =>
        /\ (probe_outcome.kind = "response" /\ probe_outcome.value = "pong")
              <=> probe.message = OkMessage
        /\ (probe_outcome.kind = "response" /\ probe_outcome.value # "pong")
              <=> probe.message = UnexpectedResponseMessage
        /\ probe.message = UnexpectedResponseMessage
              => probe.detail = probe_outcome.value
        /\ probe_outcome.kind = "TaskException"
              <=> probe.message = ExecutionFailedMessage
        /\ probe.message = ExecutionFailedMessage
              => probe.detail = probe_outcome.value
        /\ probe_outcome.kind = "TimeoutError" <=> probe.message = TimedOutMessage
        /\ probe.success <=> probe.message = OkMessage

C12_Witness ==
    /\ Probed
    /\ probe_outcome = [kind |-> "response", value |-> "pang"]
    /\ probe.message = UnexpectedResponseMessage
    /\ probe.detail = "pang"
    /\ ~probe.success

\* a queue test is blocked in task.get
Waiting == probe_wait >= 0

\* C13: a queue test that waits in task.get never waits past its timeout
\* (seen at the first look at the clock at or after ProbeTimeout seconds);
\* once the timeout is over the wait goes on no further and ends with the
\* timed-out result; and every wait ends, also when no answer ever comes.
C13_ProbeReturnsByDeadline ==
    /\ [](Waiting => probe_wait < ProbeTimeout + WaitStep)
    /\ [][ (Waiting /\ probe_wait >= ProbeTimeout /\ probe_wait' # probe_wait) =>
             /\ probe_wait' = -1
             /\ probe'.shown /\ ~probe'.success
             /\ probe'.message = TimedOutMessage ]_vars
    /\ (Waiting ~> ~Waiting)

C13_Witness ==
    /\ ~Waiting
    /\ Probed
    /\ probe_outcome.kind = "TimeoutError"
    /\ probe.message = TimedOutMessage

\* C14 as stated: the result of a queue test is always one of the four
\* results Ok, UnexpectedResponse, ExecutionFailed, TimedOut, also when
\* ping() raises or task.get raises another exception.
C14_AlwaysOneOfFour ==
    Probed => probe.message \in FourResults

\* C14: a queue test always ends with a result returned and shown, no
\* exception leaves it; the result is one of five: the four of C12, or
\* "Queue connection failed" with the exception's text, which is returned
\* exactly when ping() raises or task.get raises an exception other than
\* TaskException and TimeoutError.
C14_ReturnsOneOfFive ==
    /\ [](Probed =>
             /\ ~Waiting
             /\ probe.message \in FourResults \cup { ConnectionFailedMessage }
             /\ probe.message = ConnectionFailedMessage
                   <=> probe_outcome.kind \in { "EnqueueError", "Exception" }
             /\ probe.message = ConnectionFailedMessage
                   => (~probe.success /\ probe.detail = probe_outcome.value))
    /\ [][ /\ ClickTestQueue => (Waiting' \/ Probed')
           /\ (Waiting /\ ~Waiting') => Probed' ]_vars

C14_Witness ==
    /\ Probed
    /\ probe_outcome.kind = "EnqueueError"
    /\ probe.message = ConnectionFailedMessage
    /\ probe.detail = "connection refused"

-----------------------------------------------------------------------------
(* Polls that read no terminal snapshot *)

\* the last run polled with a task id held, huey.result returned, and no
\* statement of the try block raised
PolledCleanly == last_run.held /\ last_run.read /\ ~last_run.threw

\* C15: a poll that finds no entry for the held task id is not an error: the
\* task id stays held (the same one), no error is drawn, the form stays
\* hidden, and the refresh component is on the page with no rerun due, so
\* the next refresh tick polls again.
C15_AbsentReadKeepsPolling ==
    /\ []((PolledCleanly /\ last_run.result = PyNone) =>
             /\ Held
             /\ rendered = Nothing
             /\ form_error = ""
             /\ ~form_shown
             /\ autorefresh /\ ~run_pending)
    /\ [][ (Held /\ PolledCleanly' /\ last_run'.result = PyNone) =>
             (Held' /\ session_state'["task_id"] = session_state["task_id"]) ]_vars

C15_Witness ==
    /\ PolledCleanly
    /\ last_run.trigger = "tick"
    /\ last_run.result = PyNone
    /\ Held /\ autorefresh
    /\ rendered = Nothing

\* the page goes on polling the task id it holds
KeepsPolling == Held /\ ~form_shown /\ autorefresh /\ ~run_pending

\* C16 as stated: a poll that reads a snapshot with status Pending or In
\* Progress draws the progress display (counts and tallies) and keeps the
\* task id held, Pending like In Progress.
C16_NonTerminalReadDrawsProgress ==
    (PolledCleanly /\ LastStatus \in { "Pending", "In Progress" }) =>
        (KeepsPolling /\ rendered.kind = "In Progress")

\* C16: a poll that reads an In Progress snapshot draws its processed and
\* total counts, its success and failure tallies and the fraction
\* processed/total (0 when total is 0), and goes on polling with the task id
\* held; a poll that reads a Pending snapshot goes on polling with the task
\* id held as well, but draws nothing.
C16_InProgressDrawnPendingBlank ==
    /\ (PolledCleanly /\ LastStatus = "In Progress") =>
          /\ KeepsPolling
          /\ rendered.kind = "In Progress"
          /\ rendered.processed = last_run.result.processed
          /\ rendered.total = last_run.result.total
          /\ rendered.success = last_run.result.success
          /\ rendered.failed = last_run.result.failed
          /\ rendered.progress = IF rendered.total > 0
                                 THEN << rendered.processed, rendered.total >>
                                 ELSE << 0, 1 >>
    /\ (PolledCleanly /\ LastStatus = "Pending") =>
          (KeepsPolling /\ rendered = Nothing)

C16_Witness ==
    /\ PolledCleanly
    /\ LastStatus = "In Progress"
    /\ rendered.kind = "In Progress"
    /\ rendered.processed = 1 /\ rendered.total = 2
    /\ Held

-----------------------------------------------------------------------------
(* Terminal snapshots and the refresh timer *)

\* the status of the entry stored for the held task id, "" when there is none
HeldStatus ==
    IF Held THEN Get(HueyResult(result_store, session_state["task_id"]), "status", "")
    ELSE ""

\* the last run read a terminal snapshot, drew it and dropped the task id
ReachedTerminal ==
    /\ PolledCleanly /\ LastStatus \in Terminal
    /\ ~Held
    /\ rendered.kind = LastStatus

\* C17: a poll that reads a Complete or Failed snapshot without raising
\* draws that result and drops the task id in the same run, whatever was
\* drawn before it (nothing at all, or any In Progress counts); and with the
\* refresh timer firing, a held task id whose stored snapshot is terminal
\* leads to that result drawn and the task id dropped, unless the entry is
\* replaced or lost before it is read or the poll raises (C4's case).
C17_TerminalReachedWithoutProgress ==
    /\ [][ (Held /\ PolledCleanly' /\ LastStatus' \in Terminal)
             => ReachedTerminal' ]_vars
    /\ []((PolledCleanly /\ LastStatus \in Terminal) => ReachedTerminal)
    /\ ((Held /\ HeldStatus \in Terminal)
            ~> \/ ReachedTerminal
               \/ (Held /\ HeldStatus \notin Terminal)
               \/ (~Held /\ last_run.threw))

\* the first run after the dispatch read Complete: no In Progress was seen
C17_Witness ==
    /\ ReachedTerminal
    /\ last_run.trigger = "rerun"
    /\ LastStatus = "Complete"
    /\ rendered.kind = "Complete"
    /\ n_enqueued = 1

\* C18: the refresh timer is armed exactly while a task id is held: whenever
\* a task id is held and no rerun is due the component is on the page, and
\* the timer never fires when no task id is held.
C18_TimerArmedExactlyWhileHeld ==
    /\ []((Held /\ ~run_pending) => autorefresh)
    /\ [][TimerFires => Held]_vars

-----------------------------------------------------------------------------
(* The queue test and the tracked job *)

\* what a step leaves of the tracking state: the task id held, the jobs
\* dispatched, whether a rerun is due
SameTracking ==
    /\ Held' = Held
    /\ Held => session_state'["task_id"] = session_state["task_id"]
    /\ n_enqueued' = n_enqueued
    /\ last_job' = last_job
    /\ run_pending' = run_pending

\* C19: the queue test never changes what is tracked.  While it waits in
\* task.get and when it returns, whatever the outcome, the task id held (or
\* none), the jobs dispatched and the timer are as before.  The run of a
\* press of the button, up to the call of ping(), and with ping() failing,
\* never stores a task id and dispatches nothing; a task id held before it is
\* still held, the same one, unless the poll at the start of that run has
\* disposed of it (it read a terminal snapshot, or raised).
C19_ProbeLeavesTracking ==
    /\ [][Waiting => (SameTracking /\ autorefresh' = autorefresh)]_vars
    /\ [][ (~Waiting /\ (Waiting' \/ probe_outcome'.kind = "EnqueueError")) =>
             /\ Held' => (Held /\ session_state'["task_id"] = session_state["task_id"])
             /\ (Held /\ ~Held') => (last_run'.threw \/ LastStatus' \in Terminal)
             /\ n_enqueued' = n_enqueued
             /\ last_job' = last_job
             /\ ~run_pending' ]_vars

\* a queue test has returned "pong" while a job is tracked
C19_Witness ==
    /\ Probed
    /\ last_run.trigger = "probe"
    /\ probe.success
    /\ Held /\ session_state["task_id"] = 1 /\ n_enqueued = 1

====
